---- MODULE Spec2Model ----
(***************************************************************************)
(* MonitorKeeper: the window-placement cache (SavedWindowData records in   *)
(* InstanceData::_WindowData), its sweep / restore operations and the      *)
(* message handlers and timer callbacks that drive them.                   *)
(*                                                                         *)
(* The windowing environment (the top-level windows, the monitor count,    *)
(* the message queue and the two named timers) is modelled by the          *)
(* variables windows, envMonitors, pendingDisplay, saveTimer, dispTimer.   *)
(* Every handler runs to completion on the single message-loop thread, so  *)
(* each handler is one action.                                             *)
(***************************************************************************)
EXTENDS Integers, Sequences, FiniteSets, TLC

(***************************************************************************)
(* Program constants.                                                      *)
(***************************************************************************)
MAX_MONITORS == 5
MIN_MONITORTORESTORE == 2
NULL == 0
\* sizeof(WINDOWPLACEMENT), the value SetData writes into .length
SIZEOF_WINDOWPLACEMENT == 44
\* WinUser.h show commands and placement flag used by the source
SW_NORMAL == 1
SW_SHOWMINIMIZED == 2
SW_MAXIMIZE == 3
SW_SHOWNOACTIVATE == 4
SW_MINIMIZE == 6
SW_SHOWMINNOACTIVE == 7
SW_SHOWNA == 8
WPF_ASYNCWINDOWPLACEMENT == 4
\* InstanceData(): _WindowDataLength = 32; FindWindowSlot grows by 32
InitialWindowDataLength == 32
GrowIncrement == 32
\* TagWindowsUnused stops counting at 100; a slot is reusable above 2
UnusedCap == 100
ReuseAbove == 2
\* SavedWindowData(): m_nUnusedCount = 1
InitialUnusedCount == 1

(***************************************************************************)
(* Bounds of the model.                                                    *)
(***************************************************************************)
NumHandles == 2
NumRects == 2
MaxEnvMonitors == 3
MaxWinOps == 1
MaxMonitorChanges == 2
MaxLocationEvents == 2
MaxUnitSteps == 2
MaxStoreSteps == 2

Handles == 1..NumHandles
Rects == 1..NumRects
MonitorCounts == 1..MaxEnvMonitors
Classes == {"Notepad", "Calculator"}
\* the show commands GetWindowPlacement reports for a window
ShowStates == {SW_NORMAL, SW_SHOWMINIMIZED, SW_MAXIMIZE}
Buckets == 0..(MAX_MONITORS - MIN_MONITORTORESTORE)
\* the handle the end-to-end scenario follows: the first one
W == CHOOSE h \in Handles : \A g \in Handles : h <= g

VARIABLES
    windows,          \* environment: handle -> window (or NoWindow)
    envMonitors,      \* environment: GetSystemMetrics(SM_CMONITORS)
    pendingDisplay,   \* WM_DISPLAYCHANGE messages queued, not yet handled
    saveTimer,        \* timer id 2 (SaveTimerCallback) is armed
    dispTimer,        \* timer id 99 (TimerCallback) is armed
    pc,               \* "start" before InitInstance, "run" in the message loop, "exit"
    _WindowData,      \* InstanceData::_WindowData: the slots written so far; the slots
                      \* after them, up to _WindowDataLength, are as constructed
    _WindowDataLength,\* InstanceData::_WindowDataLength
    _NumMonitors,     \* InstanceData::_NumMonitors
    InChangingState,  \* InstanceData::InChangingState
    last,             \* log of what the last handler did (history variable)
    track,            \* history of the drop-and-return scenario of window W
    nWinOps, nMonChanges, nLocEvents, nUnit   \* counters bounding the run

vars == <<windows, envMonitors, pendingDisplay, saveTimer, dispTimer, pc,
          _WindowData, _WindowDataLength, _NumMonitors, InChangingState, last, track,
          nWinOps, nMonChanges, nLocEvents, nUnit>>

(***************************************************************************)
(* The environment's windows.                                              *)
(***************************************************************************)
\* The style bits SaveWindowsCallback tests, for the kinds of window the model draws
OverlappedStyle ==
    [visible |-> TRUE, parent |-> NULL, overlapped |-> TRUE, appwindow |-> FALSE,
     noactivate |-> FALSE]
NoActivateStyle ==
    [visible |-> TRUE, parent |-> NULL, overlapped |-> TRUE, appwindow |-> FALSE,
     noactivate |-> TRUE]
WindowStyles == {OverlappedStyle, NoActivateStyle}

NoWindow == [exists |-> FALSE, cls |-> "", style |-> OverlappedStyle, rect |-> 0, show |-> 0]

MakeWindow(cls, style, rect, show) ==
    [exists |-> TRUE, cls |-> cls, style |-> style, rect |-> rect, show |-> show]

IsWindow(wins, hwnd) == hwnd \in DOMAIN wins /\ wins[hwnd].exists

\* RealGetWindowClass: the class tag the 40-TCHAR buffer receives
RealGetWindowClass(wins, hwnd) == wins[hwnd].cls

\* The filter of SaveWindowsCallback
Eligible(w) ==
    /\ w.style.visible
    /\ w.style.parent = NULL
    /\ (w.style.overlapped \/ w.style.appwindow)
    /\ ~w.style.noactivate

\* What the window manager does with a show command of SetWindowPlacement
ShowStateAfter(cmd, cur) ==
    IF cmd \in {SW_NORMAL, SW_SHOWNOACTIVATE} THEN SW_NORMAL
    ELSE IF cmd = SW_MAXIMIZE THEN SW_MAXIMIZE
    ELSE IF cmd \in {SW_SHOWMINIMIZED, SW_MINIMIZE, SW_SHOWMINNOACTIVE} THEN SW_SHOWMINIMIZED
    ELSE cur

\* SetWindowPlacement(hwnd, place) as the window's thread carries it out
SetWindowPlacement(wins, hwnd, place) ==
    IF IsWindow(wins, hwnd)
    THEN [wins EXCEPT ![hwnd].rect = place.rect,
                      ![hwnd].show = ShowStateAfter(place.showCmd, @)]
    ELSE wins

(***************************************************************************)
(* SavedWindowData.                                                        *)
(***************************************************************************)
\* marker for a WINDOWPLACEMENT the constructor left uninitialised
UNINIT == -1

UninitPlacement == [length |-> UNINIT, rect |-> 0, showCmd |-> 0, flags |-> 0]

\* what an uninitialised WINDOWPLACEMENT can turn out to hold when it is read:
\* a length that is not sizeof(WINDOWPLACEMENT), or one that is, with any content
GarbagePlacements ==
    {[length |-> 0, rect |-> 0, showCmd |-> 0, flags |-> 0]} \cup
    {[length |-> SIZEOF_WINDOWPLACEMENT, rect |-> 0, showCmd |-> s, flags |-> 0] :
        s \in {SW_MAXIMIZE, SW_SHOWNA}}

\* SavedWindowData::SavedWindowData()
NewSavedWindowData ==
    [m_hwnd |-> NULL, m_wndClass |-> "", m_nUnusedCount |-> InitialUnusedCount,
     m_windowPlacement |-> [b \in Buckets |-> UninitPlacement]]

\* GetWindowPlacement(hwnd, &place) after place.length was set
GetWindowPlacement(w) ==
    [length |-> SIZEOF_WINDOWPLACEMENT, rect |-> w.rect, showCmd |-> w.show, flags |-> 0]

\* a mutant: the range is tested before the record is touched
SetData_RangeFirst(rec, hwnd, NumMonitors, w) ==
    IF NumMonitors < MIN_MONITORTORESTORE \/ NumMonitors > MAX_MONITORS
    THEN [rec |-> rec, ok |-> FALSE]
    ELSE [rec |-> [rec EXCEPT !.m_hwnd = hwnd, !.m_nUnusedCount = 0, !.m_wndClass = w.cls,
                              !.m_windowPlacement =
                                 ((NumMonitors - MIN_MONITORTORESTORE) :> GetWindowPlacement(w)) @@ @],
          ok |-> TRUE]

\* a mutant: the range is not tested
SetData_NoRangeTest(rec, hwnd, NumMonitors, w) ==
    [rec |-> [rec EXCEPT !.m_hwnd = hwnd, !.m_nUnusedCount = 0, !.m_wndClass = w.cls,
                         !.m_windowPlacement =
                            ((NumMonitors - MIN_MONITORTORESTORE) :> GetWindowPlacement(w)) @@ @],
     ok |-> TRUE]

\* SavedWindowData::SetData(hwnd, NumMonitors); w is the window hwnd names
SetData(rec, hwnd, NumMonitors, w) ==
    LET r1 == [rec EXCEPT !.m_hwnd = hwnd, !.m_nUnusedCount = 0, !.m_wndClass = w.cls]
    IN  IF NumMonitors < MIN_MONITORTORESTORE \/ NumMonitors > MAX_MONITORS
        THEN [rec |-> r1, ok |-> FALSE]
        ELSE [rec |-> [r1 EXCEPT !.m_windowPlacement =
                           ((NumMonitors - MIN_MONITORTORESTORE) :> GetWindowPlacement(w)) @@ @],
              ok |-> TRUE]

\* a mutant: a minimized placement is restored as a normal one
FinalShowCmd_MinAsNormal(cmd) ==
    IF cmd = SW_MAXIMIZE THEN SW_MAXIMIZE
    ELSE IF cmd = SW_MINIMIZE \/ cmd = SW_SHOWMINIMIZED THEN SW_SHOWNOACTIVATE
    ELSE IF cmd = SW_NORMAL THEN SW_SHOWNOACTIVATE
    ELSE cmd

\* The show command RestoreWindow leaves in the saved placement for its last call
FinalShowCmd(cmd) ==
    IF cmd = SW_MAXIMIZE THEN SW_MAXIMIZE
    ELSE IF cmd = SW_MINIMIZE \/ cmd = SW_SHOWMINIMIZED THEN SW_SHOWMINNOACTIVE
    ELSE IF cmd = SW_NORMAL THEN SW_SHOWNOACTIVATE
    ELSE cmd

\* One SetWindowPlacement call as the environment sees it
Call(hwnd, place) ==
    [hwnd |-> hwnd, rect |-> place.rect, showCmd |-> place.showCmd, flags |-> place.flags]

\* a mutant: a maximized placement is applied in one call
ApplyPlacement_OneCall(rec, b, read, wins) ==
    LET place == [read EXCEPT !.flags = WPF_ASYNCWINDOWPLACEMENT, !.showCmd = FinalShowCmd(@)]
    IN  [rec |-> [rec EXCEPT !.m_windowPlacement[b] = place],
         wins |-> SetWindowPlacement(wins, rec.m_hwnd, place),
         calls |-> <<Call(rec.m_hwnd, place)>>,
         isWindow |-> TRUE, curClass |-> rec.m_wndClass]

\* RestoreWindow once the window and its class are verified: the flags, the
\* show command and the SetWindowPlacement calls.  read is the bucket's content.
ApplyPlacement(rec, b, read, wins) ==
    LET place1 == [read EXCEPT !.flags = WPF_ASYNCWINDOWPLACEMENT]
        shown == [place1 EXCEPT !.showCmd = SW_SHOWNOACTIVATE]
        maximized == place1.showCmd = SW_MAXIMIZE
        place2 == [place1 EXCEPT !.showCmd = FinalShowCmd(@)]
        wins1 == IF maximized THEN SetWindowPlacement(wins, rec.m_hwnd, shown) ELSE wins
    IN  [rec |-> [rec EXCEPT !.m_windowPlacement[b] = place2],
         wins |-> SetWindowPlacement(wins1, rec.m_hwnd, place2),
         calls |-> (IF maximized THEN <<Call(rec.m_hwnd, shown)>> ELSE <<>>)
                      \o <<Call(rec.m_hwnd, place2)>>,
         isWindow |-> TRUE, curClass |-> rec.m_wndClass]

\* what RestoreWindow returns when it applies nothing
NotApplied(rec, wins) ==
    [rec |-> rec, wins |-> wins, calls |-> <<>>,
     isWindow |-> IsWindow(wins, rec.m_hwnd), curClass |-> ""]

\* a mutant: the window class is not verified
RestoreWindow_NoClassTest(rec, NumMonitors, wins, g) ==
    IF ~(NumMonitors >= MIN_MONITORTORESTORE /\ NumMonitors <= MAX_MONITORS)
    THEN NotApplied(rec, wins)
    ELSE IF ~IsWindow(wins, rec.m_hwnd) THEN NotApplied(rec, wins)
    ELSE
      LET b == NumMonitors - MIN_MONITORTORESTORE
          stored == rec.m_windowPlacement[b]
          read == IF stored.length = UNINIT THEN g ELSE stored
          rec0 == [rec EXCEPT !.m_windowPlacement[b] = read]
      IN  IF read.length # SIZEOF_WINDOWPLACEMENT
          THEN NotApplied(rec0, wins)
          ELSE ApplyPlacement(rec0, b, read, wins)

\* SavedWindowData::RestoreWindow(NumMonitors).  g is what the bucket turns out
\* to hold if it was never written.  Result: the record, the windows, the
\* SetWindowPlacement calls issued, and what the validation read.
RestoreWindow(rec, NumMonitors, wins, g) ==
    IF ~(NumMonitors >= MIN_MONITORTORESTORE /\ NumMonitors <= MAX_MONITORS)
    THEN NotApplied(rec, wins)
    ELSE IF ~IsWindow(wins, rec.m_hwnd) THEN NotApplied(rec, wins)
    ELSE
      LET b == NumMonitors - MIN_MONITORTORESTORE
          stored == rec.m_windowPlacement[b]
          read == IF stored.length = UNINIT THEN g ELSE stored
          rec0 == [rec EXCEPT !.m_windowPlacement[b] = read]
          szTempClass == RealGetWindowClass(wins, rec.m_hwnd)
      IN  IF read.length # SIZEOF_WINDOWPLACEMENT
          THEN NotApplied(rec0, wins)
          ELSE IF szTempClass # rec.m_wndClass
          THEN [NotApplied(rec0, wins) EXCEPT !.curClass = szTempClass]
          ELSE ApplyPlacement(rec0, b, read, wins)

(***************************************************************************)
(* InstanceData.  The variable _WindowData holds the slots of the array    *)
(* that have been handed out so far, which are its first Len(_WindowData)  *)
(* slots; the slots after them, up to _WindowDataLength, are as the        *)
(* constructor left them: m_hwnd = NULL, m_nUnusedCount = 1.  A loop over  *)
(* the array therefore finds no handle, nothing to tag and nothing to      *)
(* restore in those slots, and the first of them is a free slot.           *)
(***************************************************************************)
\* slot i of the array (1-based)
Slot(data, i) == IF i <= Len(data) THEN data[i] ELSE NewSavedWindowData

\* a mutant: the counter is raised without the cap
TagWindowsUnused_NoCap(data) ==
    [i \in 1..Len(data) |->
        IF data[i].m_hwnd # NULL
        THEN [data[i] EXCEPT !.m_nUnusedCount = @ + 1]
        ELSE data[i]]

\* InstanceData::TagWindowsUnused
TagWindowsUnused(data) ==
    [i \in 1..Len(data) |->
        IF data[i].m_hwnd # NULL /\ data[i].m_nUnusedCount < UnusedCap
        THEN [data[i] EXCEPT !.m_nUnusedCount = @ + 1]
        ELSE data[i]]

Min(S) == CHOOSE x \in S : \A y \in S : x <= y

\* a mutant: a record that was missed twice is handed out already
FindWindowSlot_ReuseLive(data, len, hwnd) ==
    LET same == {i \in 1..Len(data) : data[i].m_hwnd = hwnd}
        free == {i \in 1..Len(data) :
                    data[i].m_hwnd = NULL \/ data[i].m_nUnusedCount >= ReuseAbove}
                \cup (IF Len(data) < len THEN {Len(data) + 1} ELSE {})
        slot == IF same # {} THEN Min(same) ELSE IF free # {} THEN Min(free) ELSE len + 1
    IN  [data |-> IF slot > Len(data) THEN Append(data, NewSavedWindowData) ELSE data,
         len |-> IF same = {} /\ free = {} THEN len + GrowIncrement ELSE len,
         slot |-> slot]

\* a mutant: the new array is not filled from the old one
FindWindowSlot_GrowWithoutCopy(data, len, hwnd) ==
    LET same == {i \in 1..Len(data) : data[i].m_hwnd = hwnd}
        free == {i \in 1..Len(data) :
                    data[i].m_hwnd = NULL \/ data[i].m_nUnusedCount > ReuseAbove}
                \cup (IF Len(data) < len THEN {Len(data) + 1} ELSE {})
        slot == IF same # {} THEN Min(same) ELSE IF free # {} THEN Min(free) ELSE len + 1
    IN  [data |-> IF same = {} /\ free = {}
                  THEN [i \in 1..(len + 1) |-> NewSavedWindowData]
                  ELSE IF slot > Len(data) THEN Append(data, NewSavedWindowData) ELSE data,
         len |-> IF same = {} /\ free = {} THEN len + GrowIncrement ELSE len,
         slot |-> slot]

\* a mutant: the first loop, which looks for the handle, is left out
FindWindowSlot_NoIdentityMatch(data, len, hwnd) ==
    LET free == {i \in 1..Len(data) :
                    data[i].m_hwnd = NULL \/ data[i].m_nUnusedCount > ReuseAbove}
                \cup (IF Len(data) < len THEN {Len(data) + 1} ELSE {})
        slot == IF free # {} THEN Min(free) ELSE len + 1
    IN  [data |-> IF slot > Len(data) THEN Append(data, NewSavedWindowData) ELSE data,
         len |-> IF free = {} THEN len + GrowIncrement ELSE len,
         slot |-> slot]

\* a mutant: the two loops in the other order, a free slot before the handle's
FindWindowSlot_FreeFirst(data, len, hwnd) ==
    LET same == {i \in 1..Len(data) : data[i].m_hwnd = hwnd}
        free == {i \in 1..Len(data) :
                    data[i].m_hwnd = NULL \/ data[i].m_nUnusedCount > ReuseAbove}
                \cup (IF Len(data) < len THEN {Len(data) + 1} ELSE {})
        slot == IF free # {} THEN Min(free) ELSE IF same # {} THEN Min(same) ELSE len + 1
    IN  [data |-> IF slot > Len(data) THEN Append(data, NewSavedWindowData) ELSE data,
         len |-> IF same = {} /\ free = {} THEN len + GrowIncrement ELSE len,
         slot |-> slot]

\* InstanceData::FindWindowSlot: the slots handed out, the array's length and
\* the index of the slot found
FindWindowSlot(data, len, hwnd) ==
    LET same == {i \in 1..Len(data) : data[i].m_hwnd = hwnd}
        free == {i \in 1..Len(data) :
                    data[i].m_hwnd = NULL \/ data[i].m_nUnusedCount > ReuseAbove}
                \cup (IF Len(data) < len THEN {Len(data) + 1} ELSE {})
        slot == IF same # {} THEN Min(same) ELSE IF free # {} THEN Min(free) ELSE len + 1
    IN  [data |-> IF slot > Len(data) THEN Append(data, NewSavedWindowData) ELSE data,
         len |-> IF same = {} /\ free = {} THEN len + GrowIncrement ELSE len,
         slot |-> slot]

\* SaveWindowsCallback(hwnd, monitors): the array after it, and the log entry
SaveWindowsCallback(data, len, wins, hwnd, monitors) ==
    IF Eligible(wins[hwnd])
    THEN LET f == FindWindowSlot(data, len, hwnd)
             s == SetData(f.data[f.slot], hwnd, monitors, wins[hwnd])
         IN  [data |-> [f.data EXCEPT ![f.slot] = s.rec], len |-> f.len,
              log |-> <<[hwnd |-> hwnd, monitors |-> monitors, slot |-> f.slot,
                         lenBefore |-> len, lenAfter |-> f.len,
                         before |-> f.data[f.slot], after |-> s.rec,
                         ok |-> s.ok, win |-> wins[hwnd]]>>]
    ELSE [data |-> data, len |-> len, log |-> <<>>]

\* EnumDesktopWindows(NULL, SaveWindowsCallback, monitors) over the windows in
\* the order the environment enumerates them
RECURSIVE EnumDesktopWindows(_, _, _, _, _)
EnumDesktopWindows(data, len, wins, order, monitors) ==
    IF order = <<>> THEN [data |-> data, len |-> len, log |-> <<>>]
    ELSE LET one == SaveWindowsCallback(data, len, wins, Head(order), monitors)
             rest == EnumDesktopWindows(one.data, one.len, wins, Tail(order), monitors)
         IN  [data |-> rest.data, len |-> rest.len, log |-> one.log \o rest.log]

\* the orders in which the environment can enumerate the existing windows
Orders(wins) ==
    LET ex == {h \in DOMAIN wins : wins[h].exists}
    IN  {o \in [1..Cardinality(ex) -> ex] : \A i, j \in DOMAIN o : i # j => o[i] # o[j]}

\* a mutant: stale records are restored too
Live_IgnoresStale(rec) == rec.m_hwnd # NULL

\* the records RestoreWindowPositions(monitors) hands to RestoreWindow
Live(rec) == rec.m_hwnd # NULL /\ rec.m_nUnusedCount <= ReuseAbove

\* the slots whose bucket RestoreWindowPositions reads without it ever having
\* been written
ReadsUninit(data, wins, monitors) ==
    {i \in 1..Len(data) :
        /\ Live(data[i])
        /\ monitors >= MIN_MONITORTORESTORE /\ monitors <= MAX_MONITORS
        /\ IsWindow(wins, data[i].m_hwnd)
        /\ data[i].m_windowPlacement[monitors - MIN_MONITORTORESTORE].length = UNINIT}

\* InstanceData::RestoreWindowPositions(monitors), slots i..Len(data)
RECURSIVE RestoreFrom(_, _, _, _, _)
RestoreFrom(i, data, wins, monitors, G) ==
    IF i > Len(data) THEN [data |-> data, wins |-> wins, log |-> <<>>]
    ELSE IF ~Live(data[i]) THEN RestoreFrom(i + 1, data, wins, monitors, G)
    ELSE LET g == IF i \in DOMAIN G THEN G[i] ELSE UninitPlacement
             r == RestoreWindow(data[i], monitors, wins, g)
             rest == RestoreFrom(i + 1, [data EXCEPT ![i] = r.rec], r.wins, monitors, G)
         IN  [data |-> rest.data, wins |-> rest.wins,
              log |-> <<[slot |-> i, monitors |-> monitors, rec |-> data[i],
                         win |-> wins[data[i].m_hwnd],
                         isWindow |-> r.isWindow, curClass |-> r.curClass,
                         calls |-> r.calls]>> \o rest.log]

RestoreWindowPositions(data, wins, monitors, G) == RestoreFrom(1, data, wins, monitors, G)

(***************************************************************************)
(* The log of the last handler.                                            *)
(***************************************************************************)
\* the timers, _NumMonitors and InChangingState as a handler finds them
Pre ==
    [saveTimer |-> saveTimer, dispTimer |-> dispTimer,
     num |-> _NumMonitors, changing |-> InChangingState]

\* op: the handler; pre: the state it found; loc: it was handed a window's
\* location event; timerAtWork: its own timer was armed while its work ran;
\* burst: the WM_DISPLAYCHANGE messages handled in a row up to this handler
NoLog(op) ==
    [op |-> op, monitors |-> 0, num |-> 0, changing |-> FALSE,
     swept |-> FALSE, restored |-> FALSE, tag |-> <<>>, capt |-> <<>>, rest |-> <<>>,
     prevCapt |-> <<>>, pre |-> Pre, loc |-> FALSE, timerAtWork |-> FALSE, burst |-> 0]

NoTrack == [phase |-> "none", n |-> 0, rect |-> 0, show |-> 0, applied |-> FALSE]

\* the log of TagWindowsUnused: every slot's record before and after
RECURSIVE TagLogFrom(_, _, _)
TagLogFrom(i, before, after) ==
    IF i > Len(before) THEN <<>>
    ELSE <<[slot |-> i, before |-> before[i], after |-> after[i]]>>
         \o TagLogFrom(i + 1, before, after)

\* ProcessDesktopWindows() past its guard: TagWindowsUnused, then the enumeration
SnapshotSweep(data, len, wins, monitors, order) ==
    LET tagged == TagWindowsUnused(data)
        e == EnumDesktopWindows(tagged, len, wins, order, monitors)
    IN  [data |-> e.data, len |-> e.len, swept |-> TRUE,
         tag |-> TagLogFrom(1, data, tagged), capt |-> e.log]

\* a mutant: the sweep runs whatever the monitor count is
ProcessDesktopWindows_Unguarded(data, len, wins, monitors, num, order) ==
    SnapshotSweep(data, len, wins, monitors, order)

\* ProcessDesktopWindows(): the array after it and what it did
ProcessDesktopWindows(data, len, wins, monitors, num, order) ==
    IF monitors # num
    THEN [data |-> data, len |-> len, swept |-> FALSE, tag |-> <<>>, capt |-> <<>>]
    ELSE SnapshotSweep(data, len, wins, monitors, order)

SweepLog(op, p, monitors) ==
    [NoLog(op) EXCEPT !.monitors = monitors, !.num = _NumMonitors,
                      !.changing = InChangingState, !.swept = p.swept,
                      !.tag = p.tag, !.capt = p.capt]

(***************************************************************************)
(* History of the scenario "W saved at count n, count drops below n,       *)
(* count returns to n".                                                    *)
(***************************************************************************)
\* the show state a saved show command stands for
ShowStateOf(cmd) == ShowStateAfter(cmd, 0)

TrackSweep(t, capt) ==
    LET mine == {k \in DOMAIN capt : capt[k].hwnd = W /\ capt[k].ok}
    IN  IF mine = {} \/ t.phase = "dropped" \/ (t.phase = "returned" /\ ~t.applied) THEN t
        ELSE LET c == capt[Min(mine)]
                 pl == c.after.m_windowPlacement[c.monitors - MIN_MONITORTORESTORE]
             IN  [phase |-> "saved", n |-> c.monitors, rect |-> pl.rect,
                  show |-> pl.showCmd, applied |-> FALSE]

TrackMonitors(t, n) ==
    IF t.phase = "saved"
    THEN (IF n < t.n THEN [t EXCEPT !.phase = "dropped"] ELSE IF n = t.n THEN t ELSE NoTrack)
    ELSE IF t.phase = "dropped"
    THEN (IF n < t.n THEN t ELSE IF n = t.n THEN [t EXCEPT !.phase = "returned"] ELSE NoTrack)
    ELSE IF t.phase = "returned"
    THEN (IF n = t.n THEN t ELSE NoTrack)
    ELSE t

\* the calls of a restore pass that put W at the tracked placement
TrackRestore(t, rest) ==
    IF /\ t.phase = "returned"
       /\ \E k \in DOMAIN rest :
            /\ rest[k].calls # <<>>
            /\ LET c == rest[k].calls[Len(rest[k].calls)]
               IN  c.hwnd = W /\ c.rect = t.rect /\ ShowStateOf(c.showCmd) = t.show
    THEN [t EXCEPT !.applied = TRUE]
    ELSE t

(***************************************************************************)
(* Initial state: InstanceData() has run, InitInstance has not.            *)
(***************************************************************************)

\* the windows on the desktop when the program starts
InitialWindowValues == {NoWindow, MakeWindow("Notepad", OverlappedStyle, 1, SW_NORMAL)}

Init ==
    /\ windows \in [Handles -> InitialWindowValues]
    /\ envMonitors \in MonitorCounts
    /\ pendingDisplay = 0
    /\ saveTimer = FALSE
    /\ dispTimer = FALSE
    /\ pc = "start"
    /\ _WindowData = <<>>
    /\ _WindowDataLength = InitialWindowDataLength
    /\ _NumMonitors = 1
    /\ InChangingState = FALSE
    /\ last = NoLog("Init")
    /\ track = NoTrack
    /\ nWinOps = 0 /\ nMonChanges = 0 /\ nLocEvents = 0 /\ nUnit = 0

(***************************************************************************)
(* The program's handlers.                                                 *)
(***************************************************************************)
\* InitInstance: the startup sweep, then _NumMonitors from the environment
InitInstance ==
    /\ pc = "start"
    /\ \E order \in Orders(windows), hWnd \in BOOLEAN :
         LET p == ProcessDesktopWindows(_WindowData, _WindowDataLength, windows,
                                        envMonitors, _NumMonitors, order)
         IN  /\ _WindowData' = p.data
             /\ _WindowDataLength' = p.len
             /\ last' = SweepLog("InitInstance", p, envMonitors)
             /\ track' = TrackSweep(track, p.capt)
             /\ pc' = IF hWnd THEN "run" ELSE "exit"
    /\ _NumMonitors' = envMonitors
    /\ UNCHANGED <<windows, envMonitors, pendingDisplay, saveTimer, dispTimer,
                   InChangingState, nWinOps, nMonChanges, nLocEvents, nUnit>>

\* a mutant: the notification does not start timer 99
WndProcDisplayChange_NoTimer ==
    /\ pc = "run"
    /\ pendingDisplay > 0
    /\ pendingDisplay' = pendingDisplay - 1
    /\ InChangingState' = TRUE
    /\ last' = [NoLog("WM_DISPLAYCHANGE") EXCEPT !.burst = last.burst + 1]
    /\ UNCHANGED <<windows, envMonitors, saveTimer, dispTimer, pc, _WindowData, _WindowDataLength, _NumMonitors,
                   track, nWinOps, nMonChanges, nLocEvents, nUnit>>

\* a mutant: the notification already stores the monitor count
WndProcDisplayChange_Measures ==
    /\ pc = "run"
    /\ pendingDisplay > 0
    /\ pendingDisplay' = pendingDisplay - 1
    /\ InChangingState' = TRUE
    /\ _NumMonitors' = envMonitors
    /\ dispTimer' = TRUE
    /\ last' = [NoLog("WM_DISPLAYCHANGE") EXCEPT !.burst = last.burst + 1]
    /\ UNCHANGED <<windows, envMonitors, saveTimer, pc, _WindowData, _WindowDataLength,
                   track, nWinOps, nMonChanges, nLocEvents, nUnit>>

\* WndProc, case WM_DISPLAYCHANGE
WndProcDisplayChange ==
    /\ pc = "run"
    /\ pendingDisplay > 0
    /\ pendingDisplay' = pendingDisplay - 1
    /\ InChangingState' = TRUE
    /\ dispTimer' = TRUE
    /\ last' = [NoLog("WM_DISPLAYCHANGE") EXCEPT !.burst = last.burst + 1]
    /\ UNCHANGED <<windows, envMonitors, saveTimer, pc, _WindowData, _WindowDataLength, _NumMonitors,
                   track, nWinOps, nMonChanges, nLocEvents, nUnit>>

\* the events WinEventProcCallback acts on, for a window
LocationEvent(hwnd, dwEvent) ==
    hwnd # NULL /\ dwEvent \in {"EVENT_SYSTEM_MOVESIZEEND", "EVENT_OBJECT_LOCATIONCHANGE"}

\* a mutant: the event arms the timer during a display change too
SaveTimerAfterEvent_IgnoresChanging(timer, changing, hwnd, dwEvent) ==
    IF LocationEvent(hwnd, dwEvent) THEN TRUE ELSE timer

\* WinEventProcCallback: timer 2 after the callback
SaveTimerAfterEvent(timer, changing, hwnd, dwEvent) ==
    IF changing THEN timer
    ELSE IF LocationEvent(hwnd, dwEvent) THEN TRUE
    ELSE timer

\* WinEventProcCallback(hwnd, dwEvent)
WinEventProcCallback ==
    /\ pc = "run"
    /\ nLocEvents < MaxLocationEvents
    /\ nLocEvents' = nLocEvents + 1
    /\ \E hwnd \in Handles \cup {NULL},
          dwEvent \in {"EVENT_SYSTEM_MOVESIZEEND", "EVENT_OBJECT_LOCATIONCHANGE", "other"} :
         /\ saveTimer' = SaveTimerAfterEvent(saveTimer, InChangingState, hwnd, dwEvent)
         /\ last' = [NoLog("WinEventProcCallback") EXCEPT
                        !.loc = LocationEvent(hwnd, dwEvent)]
    /\ UNCHANGED <<windows, envMonitors, pendingDisplay, dispTimer, pc, _WindowData,
                   _WindowDataLength, _NumMonitors, InChangingState, track, nWinOps, nMonChanges, nUnit>>

\* SaveTimerCallback: ProcessDesktopWindows(), then KillTimer; the sweep runs
\* with timer 2 as the callback found it
SaveTimerCallback ==
    /\ pc = "run"
    /\ saveTimer
    /\ \E order \in Orders(windows) :
         LET p == ProcessDesktopWindows(_WindowData, _WindowDataLength, windows,
                                        envMonitors, _NumMonitors, order)
         IN  /\ _WindowData' = p.data
             /\ _WindowDataLength' = p.len
             /\ last' = [SweepLog("SaveTimerCallback", p, envMonitors) EXCEPT
                            !.timerAtWork = saveTimer]
             /\ track' = TrackSweep(track, p.capt)
    /\ saveTimer' = FALSE
    /\ UNCHANGED <<windows, envMonitors, pendingDisplay, dispTimer, pc, _NumMonitors,
                   InChangingState, nWinOps, nMonChanges, nLocEvents, nUnit>>

\* a mutant: every firing of timer 99 restores
RestoreDue_Always(monitors, num) == TRUE

\* ProcessMonitors(): whether it calls RestoreWindowPositions
RestoreDue(monitors, num) == monitors > 1 /\ num # monitors

\* TimerCallback: ProcessMonitors(), then KillTimer; ProcessMonitors runs with
\* timer 99 as the callback found it
TimerCallback ==
    /\ pc = "run"
    /\ dispTimer
    /\ LET monitors == envMonitors
       IN  IF RestoreDue(monitors, _NumMonitors)
           THEN \E G \in [ReadsUninit(_WindowData, windows, monitors) -> GarbagePlacements] :
                  LET r == RestoreWindowPositions(_WindowData, windows, monitors, G)
                  IN  /\ _WindowData' = r.data
                      /\ windows' = r.wins
                      /\ last' = [NoLog("TimerCallback") EXCEPT
                                     !.monitors = monitors, !.num = _NumMonitors,
                                     !.changing = InChangingState,
                                     !.restored = TRUE, !.rest = r.log,
                                     !.timerAtWork = dispTimer, !.burst = last.burst]
                      /\ track' = TrackRestore(track, r.log)
           ELSE /\ last' = [NoLog("TimerCallback") EXCEPT
                                     !.monitors = monitors, !.num = _NumMonitors,
                                     !.changing = InChangingState,
                                     !.timerAtWork = dispTimer, !.burst = last.burst]
                /\ UNCHANGED <<_WindowData, windows, track>>
    /\ _NumMonitors' = envMonitors
    /\ InChangingState' = FALSE
    /\ dispTimer' = FALSE
    /\ UNCHANGED <<envMonitors, pendingDisplay, saveTimer, pc, _WindowDataLength,
                   nWinOps, nMonChanges, nLocEvents, nUnit>>

(***************************************************************************)
(* The environment.                                                        *)
(***************************************************************************)
\* a window as it is when it is created: at the default position, not yet
\* minimized or maximized
NewWindowValues == {MakeWindow(c, k, 1, SW_NORMAL) : c \in Classes, k \in WindowStyles}

EnvCreateWindow ==
    /\ pc = "run"
    /\ nWinOps < MaxWinOps
    /\ nWinOps' = nWinOps + 1
    /\ \E h \in Handles, w \in NewWindowValues :
         /\ ~windows[h].exists
         /\ windows' = [windows EXCEPT ![h] = w]
    /\ last' = NoLog("Env")
    /\ UNCHANGED <<envMonitors, pendingDisplay, saveTimer, dispTimer, pc, _WindowData,
                   _WindowDataLength, _NumMonitors, InChangingState, track, nMonChanges, nLocEvents, nUnit>>

EnvDestroyWindow ==
    /\ pc = "run"
    /\ nWinOps < MaxWinOps
    /\ nWinOps' = nWinOps + 1
    /\ \E h \in Handles :
         /\ windows[h].exists
         /\ windows' = [windows EXCEPT ![h] = NoWindow]
         /\ track' = IF h = W THEN NoTrack ELSE track
    /\ last' = NoLog("Env")
    /\ UNCHANGED <<envMonitors, pendingDisplay, saveTimer, dispTimer, pc, _WindowData,
                   _WindowDataLength, _NumMonitors, InChangingState, nMonChanges, nLocEvents, nUnit>>

\* the user, or the window manager collapsing windows onto fewer monitors
EnvMoveWindow ==
    /\ pc = "run"
    /\ nWinOps < MaxWinOps
    /\ nWinOps' = nWinOps + 1
    /\ \E h \in Handles, r \in Rects, s \in ShowStates :
         /\ windows[h].exists
         /\ <<r, s>> # <<windows[h].rect, windows[h].show>>
         /\ windows' = [windows EXCEPT ![h].rect = r, ![h].show = s]
    /\ last' = NoLog("Env")
    /\ UNCHANGED <<envMonitors, pendingDisplay, saveTimer, dispTimer, pc, _WindowData,
                   _WindowDataLength, _NumMonitors, InChangingState, track, nMonChanges, nLocEvents, nUnit>>

\* the display configuration changes: WM_DISPLAYCHANGE is queued
EnvDisplayChange ==
    /\ pc = "run"
    /\ nMonChanges < MaxMonitorChanges
    /\ nMonChanges' = nMonChanges + 1
    /\ pendingDisplay' = pendingDisplay + 1
    /\ \E n \in MonitorCounts :
         /\ envMonitors' = n
         /\ track' = TrackMonitors(track, n)
    /\ last' = NoLog("Env")
    /\ UNCHANGED <<windows, saveTimer, dispTimer, pc, _WindowData, _WindowDataLength, _NumMonitors,
                   InChangingState, nWinOps, nLocEvents, nUnit>>

Next ==
    \/ InitInstance
    \/ WndProcDisplayChange
    \/ WinEventProcCallback
    \/ SaveTimerCallback
    \/ TimerCallback
    \/ EnvCreateWindow
    \/ EnvDestroyWindow
    \/ EnvMoveWindow
    \/ EnvDisplayChange

Spec == Init /\ [][Next]_vars

(***************************************************************************)
(* The handlers and the display changes on a desktop whose windows stay as *)
(* they are: the protocol of the two timers.  The message loop keeps       *)
(* dispatching: a queued WM_DISPLAYCHANGE is handled and an armed timer's  *)
(* callback is called.                                                     *)
(***************************************************************************)
InitProtocol ==
    /\ Init
    /\ windows = [h \in Handles |->
                    IF h = W THEN MakeWindow("Notepad", OverlappedStyle, 1, SW_NORMAL)
                    ELSE NoWindow]

NextProtocol ==
    \/ InitInstance
    \/ WndProcDisplayChange
    \/ WinEventProcCallback
    \/ SaveTimerCallback
    \/ TimerCallback
    \/ EnvDisplayChange

\* weak fairness of the two timer callbacks, with ENABLED written out: a
\* callback can run exactly when the message loop runs and its timer is armed
FairSaveTimer ==
    []<>~(pc = "run" /\ saveTimer) \/ []<><<SaveTimerCallback>>_vars

FairDisplayTimer ==
    []<>~(pc = "run" /\ dispTimer) \/ []<><<TimerCallback>>_vars

SpecProtocol ==
    /\ InitProtocol
    /\ [][NextProtocol]_vars
    /\ WF_vars(WndProcDisplayChange)
    /\ FairSaveTimer
    /\ FairDisplayTimer


(***************************************************************************)
(* The record and store operations on their own: capture                   *)
(* (SaveWindowsCallback), restore (RestoreWindowPositions) and             *)
(* TagWindowsUnused applied to a store and a desktop drawn from bounded    *)
(* sets, for any monitor count from 1 to MAX_MONITORS + 1.                 *)
(***************************************************************************)
UnitMonitorCounts == 1..(MAX_MONITORS + 1)

\* placement tables: nothing saved yet, or the first or the last bucket saved
\* by SetData
UnitPlacementTables ==
    {[b \in Buckets |-> UninitPlacement]} \cup
    {[b \in Buckets |->
        IF b = k
        THEN [length |-> SIZEOF_WINDOWPLACEMENT, rect |-> NumRects, showCmd |-> sc, flags |-> 0]
        ELSE UninitPlacement] : k \in {0, MAX_MONITORS - MIN_MONITORTORESTORE}, sc \in ShowStates}

\* records in use: live or just reusable ones with any of the tables, and ones
\* at or next to the cap with the last bucket saved
UnitRecords ==
    {[m_hwnd |-> h, m_wndClass |-> c, m_nUnusedCount |-> u, m_windowPlacement |-> t] :
        h \in Handles, c \in Classes, u \in {0, ReuseAbove + 1}, t \in UnitPlacementTables}
    \cup
    {[m_hwnd |-> h, m_wndClass |-> c, m_nUnusedCount |-> u,
      m_windowPlacement |->
         [b \in Buckets |->
            IF b = MAX_MONITORS - MIN_MONITORTORESTORE
            THEN [length |-> SIZEOF_WINDOWPLACEMENT, rect |-> NumRects,
                  showCmd |-> SW_NORMAL, flags |-> 0]
            ELSE UninitPlacement]] :
        h \in Handles, c \in Classes, u \in {UnusedCap - 1, UnusedCap}}

\* the windows of the desktop: overlapped windows of any class, rectangle and
\* show state, and one window SaveWindowsCallback filters out
UnitWindowValues ==
    {NoWindow, MakeWindow("Notepad", NoActivateStyle, 1, SW_NORMAL)} \cup
    {MakeWindow(c, OverlappedStyle, r, s) : c \in Classes, r \in Rects, s \in ShowStates}

InitUnit ==
    /\ windows \in {f \in [Handles -> UnitWindowValues] :
                        \A h \in Handles : h # W => f[h] = NoWindow}
    /\ _WindowData \in {<<>>, <<NewSavedWindowData>>} \cup {<<r>> : r \in UnitRecords}
    /\ _WindowDataLength = InitialWindowDataLength
    /\ envMonitors = 1
    /\ pendingDisplay = 0
    /\ saveTimer = FALSE
    /\ dispTimer = FALSE
    /\ pc = "unit"
    /\ _NumMonitors = 1
    /\ InChangingState = FALSE
    /\ last = NoLog("Init")
    /\ track = NoTrack
    /\ nWinOps = 0 /\ nMonChanges = 0 /\ nLocEvents = 0 /\ nUnit = 0

unitFrame == <<envMonitors, pendingDisplay, saveTimer, dispTimer, pc, _NumMonitors,
               InChangingState, track, nWinOps, nMonChanges, nLocEvents>>

\* SaveWindowsCallback(hwnd, monitors) for an existing window
UnitCapture ==
    /\ pc = "unit"
    /\ nUnit < MaxUnitSteps
    /\ nUnit' = nUnit + 1
    /\ \E hwnd \in Handles, monitors \in UnitMonitorCounts :
         /\ IsWindow(windows, hwnd)
         /\ LET c == SaveWindowsCallback(_WindowData, _WindowDataLength,
                                         windows, hwnd, monitors)
            IN  /\ _WindowData' = c.data
                /\ _WindowDataLength' = c.len
                /\ last' = [NoLog("UnitCapture") EXCEPT !.monitors = monitors,
                                                      !.capt = c.log, !.prevCapt = last.capt]
    /\ UNCHANGED windows
    /\ UNCHANGED unitFrame

\* RestoreWindowPositions(monitors)
UnitRestore ==
    /\ pc = "unit"
    /\ nUnit < MaxUnitSteps
    /\ nUnit' = nUnit + 1
    /\ \E monitors \in UnitMonitorCounts :
         \E G \in [ReadsUninit(_WindowData, windows, monitors) -> GarbagePlacements] :
            LET r == RestoreWindowPositions(_WindowData, windows, monitors, G)
            IN  /\ _WindowData' = r.data
                /\ windows' = r.wins
                /\ last' = [NoLog("UnitRestore") EXCEPT !.monitors = monitors,
                                                      !.restored = TRUE, !.rest = r.log,
                                                      !.prevCapt = last.capt]
    /\ UNCHANGED _WindowDataLength
    /\ UNCHANGED unitFrame

\* TagWindowsUnused()
UnitTag ==
    /\ pc = "unit"
    /\ nUnit < MaxUnitSteps
    /\ nUnit' = nUnit + 1
    /\ LET tagged == TagWindowsUnused(_WindowData)
       IN  /\ _WindowData' = tagged
           /\ last' = [NoLog("UnitTag") EXCEPT !.tag = TagLogFrom(1, _WindowData, tagged),
                                             !.prevCapt = last.capt]
    /\ UNCHANGED <<windows, _WindowDataLength>>
    /\ UNCHANGED unitFrame

NextUnit ==
    \/ UnitCapture
    \/ UnitRestore
    \/ UnitTag

SpecUnit == InitUnit /\ [][NextUnit]_vars

(***************************************************************************)
(* The store with many records: single captures and whole sweeps on an     *)
(* array of which two slots or all 32 slots have been handed out.  The     *)
(* first and the last record handed out vary; the records between them     *)
(* belong to windows that were observed in the last sweep and are gone.    *)
(***************************************************************************)
\* the monitor count of the captures and sweeps
StoreMonitorCounts == {MIN_MONITORTORESTORE}

\* how many slots have been handed out
StoreFills == {2, InitialWindowDataLength}

\* a table with the last bucket saved by SetData
StoreTable ==
    [b \in Buckets |->
        IF b = MAX_MONITORS - MIN_MONITORTORESTORE
        THEN [length |-> SIZEOF_WINDOWPLACEMENT, rect |-> NumRects,
              showCmd |-> SW_NORMAL, flags |-> 0]
        ELSE UninitPlacement]

\* the record of slot i when it belongs to a window that is gone
StoreFiller(i) ==
    [m_hwnd |-> NumHandles + i, m_wndClass |-> "Notepad", m_nUnusedCount |-> 0,
     m_windowPlacement |-> StoreTable]

\* the records slot i can hold: of a handle of the desktop or of a window that
\* is gone; observed in the last sweep, missed twice, or missed three times
StoreRecords(i) ==
    {[m_hwnd |-> h, m_wndClass |-> "Notepad", m_nUnusedCount |-> u,
      m_windowPlacement |-> StoreTable] :
        h \in Handles \cup {NumHandles + i}, u \in {0, ReuseAbove, ReuseAbove + 1}}

StoreWindowValues ==
    {NoWindow, MakeWindow("Notepad", NoActivateStyle, 1, SW_NORMAL),
     MakeWindow("Notepad", OverlappedStyle, 1, SW_NORMAL)}

InitStore ==
    /\ windows \in [Handles -> StoreWindowValues]
    /\ \E n \in StoreFills :
         \E a \in StoreRecords(1), b \in StoreRecords(n) :
            /\ a.m_hwnd # b.m_hwnd
            /\ _WindowData = [i \in 1..n |->
                                IF i = 1 THEN a ELSE IF i = n THEN b ELSE StoreFiller(i)]
    /\ _WindowDataLength = InitialWindowDataLength
    /\ envMonitors = 1
    /\ pendingDisplay = 0
    /\ saveTimer = FALSE
    /\ dispTimer = FALSE
    /\ pc = "store"
    /\ _NumMonitors = 1
    /\ InChangingState = FALSE
    /\ last = NoLog("Init")
    /\ track = NoTrack
    /\ nWinOps = 0 /\ nMonChanges = 0 /\ nLocEvents = 0 /\ nUnit = 0

\* SaveWindowsCallback(hwnd, monitors) for an existing window
StoreCapture ==
    /\ pc = "store"
    /\ nUnit < MaxStoreSteps
    /\ nUnit' = nUnit + 1
    /\ \E hwnd \in Handles, monitors \in StoreMonitorCounts :
         /\ IsWindow(windows, hwnd)
         /\ LET c == SaveWindowsCallback(_WindowData, _WindowDataLength,
                                         windows, hwnd, monitors)
            IN  /\ _WindowData' = c.data
                /\ _WindowDataLength' = c.len
                /\ last' = [NoLog("StoreCapture") EXCEPT !.monitors = monitors,
                                                       !.capt = c.log]
    /\ UNCHANGED windows
    /\ UNCHANGED unitFrame

\* TagWindowsUnused(), then EnumDesktopWindows(NULL, SaveWindowsCallback, monitors)
StoreSweep ==
    /\ pc = "store"
    /\ nUnit < MaxStoreSteps
    /\ nUnit' = nUnit + 1
    /\ \E monitors \in StoreMonitorCounts, order \in Orders(windows) :
         LET p == SnapshotSweep(_WindowData, _WindowDataLength, windows, monitors, order)
         IN  /\ _WindowData' = p.data
             /\ _WindowDataLength' = p.len
             /\ last' = [NoLog("StoreSweep") EXCEPT !.monitors = monitors, !.swept = TRUE,
                                                  !.tag = p.tag, !.capt = p.capt]
    /\ UNCHANGED windows
    /\ UNCHANGED unitFrame

NextStore ==
    \/ StoreCapture
    \/ StoreSweep

SpecStore == InitStore /\ [][NextStore]_vars

(***************************************************************************)
(* Claims about the display-change protocol, checked under Spec.           *)
(***************************************************************************)
\* no notification is queued, no timer is armed, no transition is in progress
Quiescent ==
    /\ pc = "run"
    /\ pendingDisplay = 0
    /\ ~saveTimer
    /\ ~dispTimer
    /\ ~InChangingState

\* the slots that hold W, with W alive, of the recorded class and not stale
LiveSlotsOfW ==
    {i \in 1..Len(_WindowData) :
        /\ _WindowData[i].m_hwnd = W
        /\ IsWindow(windows, W)
        /\ _WindowData[i].m_wndClass = windows[W].cls
        /\ _WindowData[i].m_nUnusedCount <= ReuseAbove}

\* bucket n of rec holds the placement (rect, show)
BucketHolds(rec, n, rect, show) ==
    LET pl == rec.m_windowPlacement[n - MIN_MONITORTORESTORE]
    IN  /\ pl.length = SIZEOF_WINDOWPLACEMENT
        /\ pl.rect = rect
        /\ ShowStateOf(pl.showCmd) = show

\* C1: W was saved with placement P in bucket N at monitor count N, the count
\* dropped below N and returned to N; once no notification is pending and the
\* timers have fired, P has been applied to W and bucket N still holds P.
C1_EndToEndRestore ==
    (track.phase = "returned" /\ Quiescent /\ LiveSlotsOfW # {}) =>
        /\ track.applied
        /\ \A i \in LiveSlotsOfW : BucketHolds(_WindowData[i], track.n, track.rect, track.show)

\* all SetWindowPlacement calls of the last restore pass
RECURSIVE CallsOf(_)
CallsOf(rest) == IF rest = <<>> THEN <<>> ELSE Head(rest).calls \o CallsOf(Tail(rest))

\* C2: RestoreWindowPositions runs only when the count measured by the
\* display-change timer callback is greater than _NumMonitors; when it is lower
\* or equal no placement is applied.
C2_RestoreOnlyOnIncrease ==
    last.op = "TimerCallback" =>
        /\ last.restored => last.monitors > last.num
        /\ last.monitors <= last.num => CallsOf(last.rest) = <<>>

\* C3: no snapshot sweep runs while InChangingState is true.
C3_NoSweepWhileTransitioning ==
    last.swept => ~last.changing

\* the buckets of a record that a capture wrote
BucketsWritten(c) ==
    {b \in DOMAIN c.after.m_windowPlacement :
        b \notin DOMAIN c.before.m_windowPlacement
        \/ c.after.m_windowPlacement[b] # c.before.m_windowPlacement[b]}

\* C4: a sweep (the startup sweep included) runs only when the monitor count it
\* observes equals _NumMonitors, and a snapshot it stores goes to the bucket of
\* that count.
C4_SweepOnlyAtCurrentCount ==
    last.swept =>
        /\ last.monitors = envMonitors
        /\ last.num = last.monitors
        /\ \A k \in DOMAIN last.capt :
             /\ last.capt[k].monitors = last.monitors
             /\ BucketsWritten(last.capt[k]) \subseteq {last.num - MIN_MONITORTORESTORE}

C4_Witness ==
    /\ last.op = "SaveTimerCallback"
    /\ last.swept
    /\ \E k \in DOMAIN last.capt : last.capt[k].ok /\ BucketsWritten(last.capt[k]) # {}

(***************************************************************************)
(* Claims about the record and store operations, checked under SpecUnit.   *)
(***************************************************************************)
InRange(n) == n >= MIN_MONITORTORESTORE /\ n <= MAX_MONITORS

\* C5: a restore of a record whose handle names no window, or a window of
\* another class than the recorded one, issues no SetWindowPlacement call and
\* leaves the window as it was; every call that is issued goes to the record's
\* handle after IsWindow and the class comparison succeeded for that record.
C5_IdentityReuseGuard ==
    \A k \in DOMAIN last.rest :
        LET e == last.rest[k]
            h == e.rec.m_hwnd
            valid == e.win.exists /\ e.win.cls = e.rec.m_wndClass
        IN  /\ ~valid => (e.calls = <<>> /\ windows[h] = e.win)
            /\ e.calls # <<>> => (valid /\ e.isWindow /\ e.curClass = e.rec.m_wndClass)
            /\ \A j \in DOMAIN e.calls : e.calls[j].hwnd = h

\* a record with a saved placement for the count restored, whose handle now
\* names a window of another class
C5_Witness ==
    /\ last.op = "UnitRestore"
    /\ \E k \in DOMAIN last.rest :
         LET e == last.rest[k]
         IN  /\ InRange(e.monitors)
             /\ e.win.exists
             /\ e.win.cls # e.rec.m_wndClass
             /\ e.rec.m_windowPlacement[e.monitors - MIN_MONITORTORESTORE].length
                   = SIZEOF_WINDOWPLACEMENT
             /\ e.rec.m_windowPlacement[e.monitors - MIN_MONITORTORESTORE].rect
                   # e.win.rect

\* the successful captures of the step before, when the last step is a restore
\* pass at the same monitor count
RoundTrips ==
    IF last.op = "UnitRestore"
    THEN {k \in DOMAIN last.prevCapt :
             last.prevCapt[k].ok /\ last.prevCapt[k].monitors = last.monitors}
    ELSE {}

\* C6: SetData(hwnd, N) stored the window's rectangle R and show state S, and
\* RestoreWindowPositions(N) follows at once: the window ends with rectangle R
\* and show state S.
C6_RoundTripRestore ==
    \A k \in RoundTrips :
        LET c == last.prevCapt[k]
        IN  /\ InRange(c.monitors)
            /\ windows[c.hwnd].rect = c.win.rect
            /\ windows[c.hwnd].show = c.win.show

\* a round trip of a minimized window in which the restore issued a call
C6_Witness ==
    \E k \in RoundTrips :
        /\ last.prevCapt[k].win.show = SW_SHOWMINIMIZED
        /\ \E j \in DOMAIN last.rest :
             /\ last.rest[j].rec.m_hwnd = last.prevCapt[k].hwnd
             /\ last.rest[j].calls # <<>>

\* the restore-log entries in which RestoreWindow applied a saved placement:
\* monitor count in range, window alive and of the recorded class, bucket saved
AppliedSaved ==
    {k \in DOMAIN last.rest :
        LET e == last.rest[k]
        IN  /\ InRange(e.monitors)
            /\ e.win.exists
            /\ e.win.cls = e.rec.m_wndClass
            /\ e.rec.m_windowPlacement[e.monitors - MIN_MONITORTORESTORE].length
                  = SIZEOF_WINDOWPLACEMENT}

\* C7: a saved maximized placement with rectangle R is applied by exactly two
\* calls, (R, SW_SHOWNOACTIVATE) then (R, SW_MAXIMIZE); a minimized one by exactly
\* one call with SW_SHOWMINNOACTIVE; a normal one by exactly one call with
\* SW_SHOWNOACTIVATE; every call carries WPF_ASYNCWINDOWPLACEMENT.
C7_MaximizeTwoPhase ==
    \A k \in AppliedSaved :
        LET e == last.rest[k]
            pl == e.rec.m_windowPlacement[e.monitors - MIN_MONITORTORESTORE]
            call(cmd) == [hwnd |-> e.rec.m_hwnd, rect |-> pl.rect, showCmd |-> cmd,
                          flags |-> WPF_ASYNCWINDOWPLACEMENT]
        IN  /\ ShowStateOf(pl.showCmd) = SW_MAXIMIZE =>
                e.calls = <<call(SW_SHOWNOACTIVATE), call(SW_MAXIMIZE)>>
            /\ ShowStateOf(pl.showCmd) = SW_SHOWMINIMIZED =>
                e.calls = <<call(SW_SHOWMINNOACTIVE)>>
            /\ ShowStateOf(pl.showCmd) = SW_NORMAL =>
                e.calls = <<call(SW_SHOWNOACTIVATE)>>

\* a saved maximized placement was applied to a window that was not maximized
C7_Witness ==
    \E k \in AppliedSaved :
        LET e == last.rest[k]
        IN  /\ e.rec.m_windowPlacement[e.monitors - MIN_MONITORTORESTORE].showCmd = SW_MAXIMIZE
            /\ e.win.show # SW_MAXIMIZE
            /\ Len(e.calls) = 2

\* the placement tables of the first n slots of the array
Snapshots(data, n) == [i \in 1..n |-> Slot(data, i).m_windowPlacement]

\* no record holds a bucket outside MIN_MONITORTORESTORE..MAX_MONITORS; a capture
\* at a count outside that range returns false and writes no bucket; a restore
\* at such a count issues no call
C8_State ==
    /\ \A i \in 1..Len(_WindowData) : DOMAIN _WindowData[i].m_windowPlacement = Buckets
    /\ \A k \in DOMAIN last.capt :
         ~InRange(last.capt[k].monitors) =>
             /\ ~last.capt[k].ok
             /\ last.capt[k].after.m_windowPlacement = last.capt[k].before.m_windowPlacement
    /\ (last.op = "UnitRestore" /\ ~InRange(last.monitors)) => CallsOf(last.rest) = <<>>

\* a capture at a count outside the range leaves every record's buckets as they were
C8_Step ==
    (last'.op = "UnitCapture" /\ ~InRange(last'.monitors)) =>
        Snapshots(_WindowData', Len(_WindowData')) = Snapshots(_WindowData, Len(_WindowData'))

\* C8: SetData(hwnd, n) with n < 2 or n > 5 returns false and leaves all buckets
\* of all records unchanged, no state holds a bucket outside 2..5, and
\* RestoreWindowPositions(n) for such n issues no SetWindowPlacement call.
C8_OutOfRangeNeverTracked == []C8_State /\ [][C8_Step]_vars

\* a capture of a window at MAX_MONITORS + 1 monitors into a record that holds
\* a saved placement
C8_Witness ==
    /\ last.op = "UnitCapture"
    /\ last.monitors = MAX_MONITORS + 1
    /\ \E k \in DOMAIN last.capt :
         \E b \in Buckets :
            last.capt[k].before.m_windowPlacement[b].length = SIZEOF_WINDOWPLACEMENT

\* C9, as the specification states it: SetData at a count outside
\* [2, MAX_MONITORS] leaves the record's m_hwnd, m_wndClass, m_nUnusedCount and
\* buckets exactly as they were.
C9_CaptureOutOfRangeNoOp ==
    \A k \in DOMAIN last.capt :
        ~InRange(last.capt[k].monitors) =>
            (~last.capt[k].ok /\ last.capt[k].after = last.capt[k].before)

\* C9, amended: SetData at a count outside [2, MAX_MONITORS] returns false and
\* leaves every bucket as it was, but sets m_hwnd to the window, m_wndClass to
\* the window's class and m_nUnusedCount to 0.
C9_CaptureOutOfRangeKeepsSnapshots ==
    \A k \in DOMAIN last.capt :
        LET c == last.capt[k]
        IN  ~InRange(c.monitors) =>
                /\ ~c.ok
                /\ c.after = [c.before EXCEPT !.m_hwnd = c.hwnd,
                                              !.m_wndClass = c.win.cls,
                                              !.m_nUnusedCount = 0]

\* a capture at a count outside the range that reuses the stale record of
\* another handle
C9_Witness ==
    \E k \in DOMAIN last.capt :
        LET c == last.capt[k]
        IN  /\ ~InRange(c.monitors)
            /\ c.before.m_hwnd \notin {NULL, c.hwnd}
            /\ c.before.m_nUnusedCount > ReuseAbove
            /\ c.after.m_hwnd = c.hwnd

\* C10: every record has 0 <= m_nUnusedCount <= 100; TagWindowsUnused raises the
\* counter by exactly 1 in a record whose m_hwnd is not NULL and whose counter is
\* below 100, and leaves every other record unchanged.
C10_StalenessBounds ==
    /\ \A i \in 1..Len(_WindowData) :
         _WindowData[i].m_nUnusedCount >= 0 /\ _WindowData[i].m_nUnusedCount <= UnusedCap
    /\ \A k \in DOMAIN last.tag :
         LET t == last.tag[k]
         IN  /\ t.after.m_nUnusedCount >= t.before.m_nUnusedCount
             /\ (t.before.m_hwnd # NULL /\ t.before.m_nUnusedCount < UnusedCap) =>
                    t.after = [t.before EXCEPT !.m_nUnusedCount = @ + 1]
             /\ (t.before.m_hwnd = NULL \/ t.before.m_nUnusedCount = UnusedCap) =>
                    t.after = t.before

\* TagWindowsUnused met a record whose counter had reached 100
C10_Witness ==
    /\ last.op = "UnitTag"
    /\ \E k \in DOMAIN last.tag :
         /\ last.tag[k].before.m_hwnd # NULL
         /\ last.tag[k].before.m_nUnusedCount = UnusedCap

\* the step repeats the capture of the step before it: same window, same
\* monitor count, and the window as it was
RepeatedCapture ==
    /\ last.op = "UnitCapture" /\ last.capt # <<>>
    /\ last'.op = "UnitCapture" /\ last'.capt # <<>>
    /\ last'.capt[1].hwnd = last.capt[1].hwnd
    /\ last'.capt[1].monitors = last.capt[1].monitors
    /\ windows' = windows
    /\ last'.capt[1].win = last.capt[1].win

C13_Step ==
    RepeatedCapture =>
        /\ _WindowData' = _WindowData
        /\ _WindowDataLength' = _WindowDataLength
        /\ last'.capt[1].slot = last.capt[1].slot
        /\ last'.capt[1].ok = last.capt[1].ok
        /\ last'.capt[1].before = last'.capt[1].after

\* C13: SaveWindowsCallback called twice in a row for the same window and the
\* same monitor count, the window unchanged in between, leaves every record
\* and _WindowDataLength as the first call left them.
C13_CaptureIdempotent == [][C13_Step]_vars

\* the second of two equal captures, where the first one changed its record
\* and wrote a bucket
C13_Witness ==
    /\ last.op = "UnitCapture" /\ last.capt # <<>> /\ last.prevCapt # <<>>
    /\ last.capt[1].hwnd = last.prevCapt[1].hwnd
    /\ last.capt[1].monitors = last.prevCapt[1].monitors
    /\ last.prevCapt[1].ok
    /\ last.prevCapt[1].before.m_hwnd \notin {NULL, last.prevCapt[1].hwnd}
    /\ last.prevCapt[1].before # last.prevCapt[1].after

\* the slots with a handle and m_nUnusedCount <= 2
FreshSlots ==
    {i \in 1..Len(_WindowData) :
        _WindowData[i].m_hwnd # NULL /\ _WindowData[i].m_nUnusedCount <= 2}

C16_Step ==
    last'.op = "UnitRestore" =>
        /\ {last'.rest[k].slot : k \in DOMAIN last'.rest} = FreshSlots
        /\ Len(last'.rest) = Cardinality(FreshSlots)
        /\ \A k \in DOMAIN last'.rest :
              /\ last'.rest[k].monitors = last'.monitors
              /\ last'.rest[k].rec = _WindowData[last'.rest[k].slot]
              /\ \A j \in DOMAIN last'.rest[k].calls :
                    last'.rest[k].calls[j].hwnd = last'.rest[k].rec.m_hwnd
        /\ \A h \in Handles :
              windows'[h] # windows[h] =>
                 \E i \in FreshSlots : _WindowData[i].m_hwnd = h
        /\ Len(_WindowData') = Len(_WindowData)
        /\ _WindowDataLength' = _WindowDataLength
        /\ \A i \in 1..Len(_WindowData) :
              /\ _WindowData'[i].m_hwnd = _WindowData[i].m_hwnd
              /\ _WindowData'[i].m_wndClass = _WindowData[i].m_wndClass
              /\ _WindowData'[i].m_nUnusedCount = _WindowData[i].m_nUnusedCount

\* C16: RestoreWindowPositions(n) calls RestoreWindow(n) for exactly the
\* records with m_hwnd # NULL and m_nUnusedCount <= 2, once each; no placement
\* is applied on behalf of any other record, and no record's m_hwnd,
\* m_wndClass or m_nUnusedCount changes.
C16_RestoreOnlyFreshRecords == [][C16_Step]_vars

\* a record missed three times, whose window exists with the recorded class
\* and a valid saved placement for this count that differs from the window's,
\* was passed over
C16_Witness ==
    /\ last.op = "UnitRestore" /\ last.rest = <<>>
    /\ InRange(last.monitors)
    /\ \E i \in 1..Len(_WindowData) :
         LET rec == _WindowData[i]
             p == rec.m_windowPlacement[last.monitors - MIN_MONITORTORESTORE]
         IN  /\ rec.m_hwnd = W /\ rec.m_nUnusedCount = 3
             /\ IsWindow(windows, W)
             /\ RealGetWindowClass(windows, W) = rec.m_wndClass
             /\ p.length = SIZEOF_WINDOWPLACEMENT
             /\ p.rect # windows[W].rect

\* C19: a placement that a restore applies through a record was captured from
\* the record's window since the record was handed to it: when a capture has
\* just handed a record of another window to hwnd, a restore applies a saved
\* placement through that record only at the count of that capture, which
\* wrote the bucket.
C19_NoCrossWindowGeometry ==
    (/\ last.op = "UnitRestore" /\ last.prevCapt # <<>>
     /\ last.prevCapt[1].before.m_hwnd \notin {NULL, last.prevCapt[1].hwnd})
    => \A k \in DOMAIN last.rest :
          (/\ last.rest[k].slot = last.prevCapt[1].slot
           /\ last.rest[k].calls # <<>>
           /\ last.rest[k].rec.m_windowPlacement[last.monitors - MIN_MONITORTORESTORE].length
                 = SIZEOF_WINDOWPLACEMENT)
          => (last.monitors = last.prevCapt[1].monitors /\ last.prevCapt[1].ok)

(***************************************************************************)
(* Claims about the two timers, checked under SpecProtocol.                *)
(***************************************************************************)
\* what a step of WinEventProcCallback and of SaveTimerCallback does to timer 2
\* and to the store, and which steps arm, disarm and sweep
C14_Step ==
    /\ last'.op = "WinEventProcCallback" =>
          /\ ~last'.swept
          /\ _WindowData' = _WindowData /\ _WindowDataLength' = _WindowDataLength
          /\ windows' = windows
          /\ saveTimer' = (saveTimer \/ (last'.loc /\ ~InChangingState))
    /\ last'.op = "SaveTimerCallback" => (saveTimer /\ ~saveTimer')
    /\ (saveTimer' /\ ~saveTimer) => (last'.op = "WinEventProcCallback" /\ last'.loc)
    /\ (saveTimer /\ ~saveTimer') => last'.op = "SaveTimerCallback"
    /\ (last'.swept /\ pc = "run") => last'.op = "SaveTimerCallback"

\* C14, as the specification states it: every location event of a window is
\* followed by a firing of timer 2, so timer 2 is armed after it.
C14_EveryNotificationArms ==
    (last.op = "WinEventProcCallback" /\ last.loc) => saveTimer

\* C14, amended: WinEventProcCallback runs no sweep; a location event of a
\* window arms timer 2 unless InChangingState is true, in which case it leaves
\* the timer as it was; an armed timer 2 fires, SaveTimerCallback is the only
\* step that sweeps in the message loop, it fires only while timer 2 is armed and
\* leaves it disarmed, and only a location event arms it again.
C14_LocationDebounce ==
    /\ [][C14_Step]_vars
    /\ (saveTimer ~> ~saveTimer)

\* a location event of a window arrived while timer 2 was already armed
C14_Witness ==
    /\ last.op = "WinEventProcCallback"
    /\ last.loc
    /\ last.pre.saveTimer
    /\ saveTimer


(***************************************************************************)
(* Claims about the slot search and the growth of the array, checked under *)
(* SpecStore.                                                              *)
(***************************************************************************)
\* the slots of the whole array, handed out or not, that hold handle hwnd
SlotsOf(hwnd) ==
    {i \in 1.._WindowDataLength : Slot(_WindowData, i).m_hwnd = hwnd}

\* the slots of the whole array that hold no handle or a record missed more
\* than twice
ReusableSlots ==
    {i \in 1.._WindowDataLength :
        \/ Slot(_WindowData, i).m_hwnd = NULL
        \/ Slot(_WindowData, i).m_nUnusedCount > 2}

\* the step is one SaveWindowsCallback that reached FindWindowSlot
OneCapture == last'.op = "StoreCapture" /\ last'.capt # <<>>

C11_Step ==
    OneCapture =>
      LET c == last'.capt[1]
          grew == _WindowDataLength' # _WindowDataLength
      IN  /\ SlotsOf(c.hwnd) # {} =>
                (c.slot = Min(SlotsOf(c.hwnd)) /\ ~grew)
          /\ (SlotsOf(c.hwnd) = {} /\ ReusableSlots # {}) =>
                (c.slot = Min(ReusableSlots) /\ ~grew)
          /\ (SlotsOf(c.hwnd) = {} /\ ReusableSlots = {}) =>
                (grew /\ c.slot = _WindowDataLength + 1)
          /\ c.before = Slot(_WindowData, c.slot)
          /\ _WindowData'[c.slot].m_hwnd = c.hwnd
          /\ grew => \A i \in 1.._WindowDataLength :
                        /\ Slot(_WindowData, i).m_hwnd \notin {NULL, c.hwnd}
                        /\ Slot(_WindowData, i).m_nUnusedCount <= 2
          /\ (\E i \in 1.._WindowDataLength : Slot(_WindowData, i).m_nUnusedCount = 3)
                => ~grew
          /\ c.before.m_hwnd \notin {NULL, c.hwnd} => c.before.m_nUnusedCount > 2

\* C11: FindWindowSlot returns the first slot that holds the handle if there is
\* one; otherwise the first slot with m_hwnd = NULL or m_nUnusedCount > 2;
\* otherwise it grows the array.  So the array grows only when every slot holds
\* another handle with m_nUnusedCount <= 2, a slot with m_nUnusedCount = 3 is
\* reused before the array grows, and a slot of another handle with
\* m_nUnusedCount <= 2 is never returned.
C11_SearchOrder == [][C11_Step]_vars

\* all 32 slots are handed out and the array did not grow: the call got the
\* last slot, the only one missed three times, which held another handle
C11_Witness ==
    /\ last.op = "StoreCapture" /\ last.capt # <<>>
    /\ LET c == last.capt[1]
       IN  /\ c.slot = InitialWindowDataLength
           /\ c.lenAfter = InitialWindowDataLength
           /\ c.before.m_hwnd \notin {NULL, c.hwnd}
           /\ c.before.m_nUnusedCount = 3
           /\ _WindowData[1].m_nUnusedCount <= 2

C12_Step ==
    /\ _WindowDataLength' >= _WindowDataLength
    /\ OneCapture =>
         LET c == last'.capt[1]
         IN  _WindowDataLength' # _WindowDataLength =>
               /\ _WindowDataLength' = _WindowDataLength + 32
               /\ Len(_WindowData) = _WindowDataLength
               /\ \A i \in 1.._WindowDataLength : _WindowData'[i] = _WindowData[i]
               /\ c.slot = _WindowDataLength + 1
               /\ c.before.m_hwnd = NULL
               /\ c.before = NewSavedWindowData
               /\ \A i \in 1.._WindowDataLength' :
                     i > c.slot => Slot(_WindowData', i) = NewSavedWindowData

\* C12: when FindWindowSlot grows the array, _WindowDataLength rises by exactly
\* 32, every record below the old length is unchanged, and the slot returned is
\* the one at the old length (0-based), with m_hwnd = NULL;
\* _WindowDataLength starts at 32 and never decreases.
C12_GrowthPreservesData ==
    /\ _WindowDataLength = 32
    /\ [][C12_Step]_vars

\* the array grew from 32 to 64 slots for a handle it did not hold
C12_Witness ==
    /\ last.op = "StoreCapture" /\ last.capt # <<>>
    /\ last.capt[1].lenBefore = 32 /\ last.capt[1].lenAfter = 64
    /\ _WindowDataLength = 64
    /\ _WindowData[33].m_hwnd = last.capt[1].hwnd



\* C20: a record whose window was missed by at most two sweeps in a row, and
\* which the next sweep enumerates as an eligible window, still belongs to that
\* window after that sweep, with the buckets of the other monitor counts as
\* they were, whatever the order of the enumeration.
C20_SlotKeptUntilThreeMisses ==
    last.op = "StoreSweep" =>
       \A k \in DOMAIN last.tag :
          LET b == last.tag[k].before
              i == last.tag[k].slot
          IN  (/\ b.m_hwnd \in Handles
               /\ b.m_nUnusedCount <= 2
               /\ IsWindow(windows, b.m_hwnd)
               /\ Eligible(windows[b.m_hwnd]))
              => /\ _WindowData[i].m_hwnd = b.m_hwnd
                 /\ \A n \in Buckets :
                       n # last.monitors - MIN_MONITORTORESTORE =>
                          _WindowData[i].m_windowPlacement[n] = b.m_windowPlacement[n]

\* C21: no two slots of the array hold the same handle other than NULL, after
\* any captures and sweeps, with records changing hands and the array growing.
C21_IdentityUnique ==
    \A i, j \in 1.._WindowDataLength :
        (i # j /\ Slot(_WindowData, i).m_hwnd # NULL)
        => Slot(_WindowData, i).m_hwnd # Slot(_WindowData, j).m_hwnd

\* a sweep handed a record of another window to a new window and the array
\* has grown to 64 slots
C21_Witness ==
    /\ last.op = "StoreSweep"
    /\ _WindowDataLength = 64 /\ Len(_WindowData) > 32
    /\ \E k \in DOMAIN last.capt :
          last.capt[k].before.m_hwnd \notin {NULL, last.capt[k].hwnd}

(***************************************************************************)
(* Claims about the display-change timer, checked under SpecProtocol.      *)
(***************************************************************************)
C15_Step ==
    /\ last'.op = "WM_DISPLAYCHANGE" => (dispTimer' /\ windows' = windows)
    /\ (dispTimer' /\ ~dispTimer) => last'.op = "WM_DISPLAYCHANGE"
    /\ (dispTimer /\ ~dispTimer') => last'.op = "TimerCallback"
    /\ last'.restored => last'.op = "TimerCallback"
    /\ last'.op = "TimerCallback" =>
          /\ dispTimer /\ ~dispTimer'
          /\ last'.monitors = envMonitors
          /\ _NumMonitors' = envMonitors
          /\ \A k \in DOMAIN last'.rest :
                /\ last'.rest[k].monitors = envMonitors
                /\ \A j \in DOMAIN last'.rest :
                      j # k => last'.rest[j].slot # last'.rest[k].slot
          /\ envMonitors = _NumMonitors =>
                /\ ~last'.restored /\ last'.rest = <<>>
                /\ windows' = windows /\ _WindowData' = _WindowData
    /\ (pc = "run" /\ last'.op # "TimerCallback") => _NumMonitors' = _NumMonitors

\* C15: WM_DISPLAYCHANGE only (re-)arms timer 99, so a burst of notifications
\* with no firing in between is followed by exactly one TimerCallback, which
\* disarms the timer; RestoreWindowPositions runs only there, at most once per
\* firing and with the count GetSystemMetrics returns at the firing; a firing
\* that finds that count equal to _NumMonitors, the count of the firing before,
\* restores nothing.
C15_RestoreOncePerTransition ==
    /\ [][C15_Step]_vars
    /\ (dispTimer ~> ~dispTimer)

\* two WM_DISPLAYCHANGE in a row, then the one firing, which handed a record
\* to RestoreWindow
C15_Witness ==
    /\ last.op = "TimerCallback" /\ last.burst >= 2
    /\ last.restored /\ last.rest # <<>>
    /\ ~dispTimer


\* C17: each timer callback disarms its own timer before its work: while the
\* sweep of SaveTimerCallback runs timer 2 is off, and while ProcessMonitors
\* runs in TimerCallback timer 99 is off.
C17_DisarmBeforeWork ==
    last.op \in {"SaveTimerCallback", "TimerCallback"} => ~last.timerAtWork


\* C18, as the specification states it: _NumMonitors is changed by
\* TimerCallback only.
C18_OnlyTimerCallbackWrites ==
    [][_NumMonitors' # _NumMonitors => last'.op = "TimerCallback"]_vars

C18_Step ==
    /\ _NumMonitors' # _NumMonitors => last'.op \in {"InitInstance", "TimerCallback"}
    /\ InChangingState' # InChangingState => last'.op \in {"WM_DISPLAYCHANGE", "TimerCallback"}
    /\ last'.op = "InitInstance" => (pc = "start" /\ _NumMonitors' = envMonitors)
    /\ last'.op \in {"WinEventProcCallback", "SaveTimerCallback"} =>
          (_NumMonitors' = _NumMonitors /\ InChangingState' = InChangingState)
    /\ last'.swept => (_NumMonitors' = _NumMonitors /\ InChangingState' = InChangingState)
    /\ last'.op = "TimerCallback" =>
          /\ last'.monitors = envMonitors
          /\ _NumMonitors' = last'.monitors
          /\ ~InChangingState'

\* C18, amended: _NumMonitors is changed only by InitInstance, once at startup
\* after the startup sweep, and by TimerCallback; WinEventProcCallback,
\* SaveTimerCallback and every sweep leave _NumMonitors and InChangingState
\* unchanged; after every TimerCallback _NumMonitors is the count measured in
\* it and InChangingState is false.
C18_MonitorCountFrame == [][C18_Step]_vars

\* a TimerCallback changed _NumMonitors and ended a transition
C18_Witness ==
    /\ last.op = "TimerCallback"
    /\ last.pre.num # _NumMonitors /\ _NumMonitors = last.monitors
    /\ last.pre.changing /\ ~InChangingState


\* no transition is in progress, _NumMonitors is the environment's count, and
\* a location event of a window would start timer 2, whose callback would sweep
SweepsPossible ==
    /\ ~InChangingState
    /\ _NumMonitors = envMonitors
    /\ SaveTimerAfterEvent(saveTimer, InChangingState, W, "EVENT_OBJECT_LOCATIONCHANGE")
    /\ \A order \in Orders(windows) :
          ProcessDesktopWindows(_WindowData, _WindowDataLength, windows,
                                envMonitors, _NumMonitors, order).swept

\* C22: once WM_DISPLAYCHANGE has set InChangingState, and given that the
\* notifications stop and armed timers fire, a state follows in which
\* InChangingState is false and _NumMonitors equals the environment's monitor
\* count, and in which location events lead to sweeps again.
C22_TransitionCompletes == InChangingState ~> SweepsPossible

\* after the monitor count changed, every notification was handled and timer
\* 99 fired, SaveTimerCallback ran a sweep
C22_Witness ==
    /\ last.op = "SaveTimerCallback" /\ last.swept
    /\ nMonChanges > 0 /\ pendingDisplay = 0 /\ ~dispTimer
    /\ SweepsPossible

====
